---- MODULE Spec2Model ----
(***************************************************************************)
(* Model of the ZeroMQ work manager of wemd                                *)
(* (src/src/wemd/work_managers/zeromq.py): the dispatcher ZMaster with its *)
(* main loop thread, the workers ZWorker with their listen loop, and the   *)
(* submitter thread that calls ZMQWorkManager.propagate or ZMaster.dispatch.*)
(*                                                                         *)
(* Time advances by check_interval at each poll timeout of the main loop,  *)
(* the only timed wait of the program. The tunable intervals of ZMaster    *)
(* are instance attributes; they are given here in abstract time units,    *)
(* scaled down. The code reads the clock only to compare time.time() - t   *)
(* with an interval, so the state keeps each such difference, saturated at *)
(* the interval it is compared with, in place of the timestamp t; the      *)
(* timestamp 0 (the epoch) is the saturated difference.                    *)
(***************************************************************************)
EXTENDS Integers, Sequences, FiniteSets, TLC

\* ---------------------------------------------------------------- bounds
NWorkers == 2
NSegs == 2
NLive == 1
AnnHWM == 1
MaxTasks == 4
MaxProcs == 3
MaxCallSegs == 7
MaxBlocksize == 3
MaxBatch == 2
MaxIter == 2
MaxParticles == 2
MaxParent == 1
pcoord_len == 2

\* ------------------------------------------------- tunables of the program
check_interval == 1
announce_interval == 2
abort_interval == 5
blocksize == 1

Workers == 1..NWorkers
Client == NWorkers + 1
Clients == Workers \cup {Client}
Segs == 1..NSegs
ExitCodes == {0, 1}
NoMsg == [kind |-> "none"]
NoCall == [op |-> "none"]
NoFile == [open |-> FALSE]

VARIABLES
  task_queue,          \* ZMaster.task_queue
  results_queue,       \* ZMaster.results_queue
  since_contact,       \* time.time() - ZMaster.last_contact, at most abort_interval
  since_announcement,  \* time.time() - ZMaster.last_announcement, at most announce_interval
  shutdown_flag,       \* ZMaster.shutdown_flag
  shutdown_exit_code,  \* ZMaster.shutdown_exit_code
  sockets,             \* "unbound", "open" or "closed": ann_socket and task_socket of ZMaster
  mainPc,              \* position of the main loop thread
  payload,             \* results of the message handle_results is working on, not yet appended
  rep_to,              \* the clients the REP socket owes a reply to: none or one
  main_exc,            \* exception the main loop thread ended with, "none" if none
  raised,              \* history: exception raised inside the try of main_loop
  lock,                \* owner of the lock of results_avail: "free", "sub" or "main"
  notified,            \* the submitter's waiter in results_avail has been notified
  subPc,               \* position of the submitter thread
  next_task,           \* index of the next task dispatch_all / dispatch appends
  completed_ids,       \* propagate's completed_ids
  outgoing,            \* propagate's outgoing_by_id: the status of each original segment
  faulty,              \* the segments on which the propagator raises
  caller,              \* position and argument of the thread calling ZMaster.shutdown
  cliPc,               \* position of a bare client of the task endpoint
  wPc,                 \* position of each worker's listen loop
  wTasks,              \* the tasks (then results) a worker holds
  annq,                \* announcements delivered to each subscriber, not yet received
  req,                 \* message in flight from each client to the task socket
  rep,                 \* reply in flight from the task socket to each client
  since_taskavail,     \* history: <<time since the latest taskavail publication>>, at most announce_interval
  taskavail_gap,       \* history: <<time between the latest two taskavail publications>>
  shutdown_ann,        \* history: exit codes of the shutdown announcements published
  missed,              \* history: the workers that subscribed after a taskavail was published
  h5file,              \* WEMDDataManager.h5file: the archive
  call                 \* the latest direct call of an operation: its arguments and what it returned

vars == <<task_queue, results_queue, since_contact, since_announcement,
          shutdown_flag, shutdown_exit_code, sockets, mainPc, payload, rep_to,
          main_exc, raised, lock, notified, subPc, next_task, completed_ids,
          outgoing, faulty,
          caller, cliPc, wPc, wTasks, annq, req, rep, since_taskavail, taskavail_gap,
          shutdown_ann, missed, h5file, call>>

masterVars == <<task_queue, results_queue, since_contact, since_announcement,
                sockets, mainPc, payload, rep_to, main_exc, raised>>
flagVars == <<shutdown_flag, shutdown_exit_code, caller>>
cvVars == <<lock, notified>>
subVars == <<subPc, next_task, completed_ids, outgoing>>
workerVars == <<wPc, wTasks>>
chanVars == <<req, rep, cliPc>>
annVars == <<annq, since_taskavail, taskavail_gap, shutdown_ann, missed>>
dmVars == <<h5file, call>>
zmqVars == <<masterVars, flagVars, cvVars, subVars, workerVars, chanVars, annVars, faulty>>

\* ---------------------------------------------------------------- helpers
Min(a, b) == IF a < b THEN a ELSE b

RECURSIVE Concat(_, _, _)
\* f(1) \o f(2) \o ... \o f(n), starting from index i
Concat(f, i, n) == IF i > n THEN <<>> ELSE f[i] \o Concat(f, i + 1, n)

Range(s) == {s[i] : i \in 1..Len(s)}

\* ZWorker.n_procs: worker w runs w task threads
n_procs(w) == w

\* propagate, line 398:
\* blocks = [segments[i:i+blocksize] for i in xrange(0, len(segments), blocksize)]
blocks_full(segments, bs) ==
  LET starts == {i \in 0..(Len(segments) - 1) : i % bs = 0 /\ i + bs <= Len(segments)}
  IN [j \in 1..Cardinality(starts) |->
        SubSeq(segments, (j - 1) * bs + 1, Min((j - 1) * bs + bs, Len(segments)))]
blocks(segments, bs) ==
  LET starts == {i \in 0..(Len(segments) - 1) : i % bs = 0}
  IN [j \in 1..Cardinality(starts) |->
        SubSeq(segments, (j - 1) * bs + 1, Min((j - 1) * bs + bs, Len(segments)))]

\* the segments handed to propagate, by seg_id, and their blocks
SegList == [i \in 1..NSegs |-> i]
NBlocks == Len(blocks(SegList, blocksize))
Block(b) == blocks(SegList, blocksize)[b]

\* Task.__init__, as propagate calls it at line 407
Envelope(id, block) ==
  [task_id |-> id, args |-> block, completed |-> FALSE, result |-> <<>>, exception |-> "none"]
Task(b) == Envelope(b, Block(b))

\* the propagator collaborator: returns the segments of the block, propagated
Propagator(block) == block

\* Task.run: an exception of the propagator is kept on the envelope, whose
\* result stays None
RunTaskLost(t) == [t EXCEPT !.completed = TRUE, !.result = Propagator(t.args)]
RunTask(t) ==
  IF Range(t.args) \cap faulty # {}
  THEN [t EXCEPT !.completed = TRUE, !.exception = "Exception"]
  ELSE [t EXCEPT !.completed = TRUE, !.result = Propagator(t.args)]

\* a cell of the task array: <<task>>, or <<>> when empty (None)
\* TaskThread: a thread runs the tasks of its row in order, skipping the
\* empty cells, and keeps them in results
TaskThread(row) == Concat([c \in 1..Len(row) |-> IF row[c] = <<>> THEN <<>> ELSE <<RunTask(row[c][1])>>],
                          1, Len(row))

\* ZWorker.do_tasks: the tasks fill an n x n_blocks array through its flat
\* (row by row) index; thread i gets row i; the results of the threads are
\* concatenated in thread order
do_tasks_floor(tasks, n) ==
  LET k == Len(tasks)
      n_blocks == k \div n
      flat(i, c) == i * n_blocks + c
      taskarray == [i \in 0..(n - 1) |->
                      [c \in 1..n_blocks |->
                         IF flat(i, c) <= k THEN <<tasks[flat(i, c)]>> ELSE <<>>]]
      threads == [i \in 1..n |-> TaskThread(taskarray[i - 1])]
  IN Concat(threads, 1, n)
do_tasks(tasks, n) ==
  LET k == Len(tasks)
      n_blocks == IF k % n = 0 THEN k \div n ELSE k \div n + 1
      flat(i, c) == i * n_blocks + c
      taskarray == [i \in 0..(n - 1) |->
                      [c \in 1..n_blocks |->
                         IF flat(i, c) <= k THEN <<tasks[flat(i, c)]>> ELSE <<>>]]
      threads == [i \in 1..n |-> TaskThread(taskarray[i - 1])]
  IN Concat(threads, 1, n)

\* ZWorker.do_tasks: the results each thread holds when it is joined
thread_results(tasks, n) ==
  LET k == Len(tasks)
      n_blocks == IF k % n = 0 THEN k \div n ELSE k \div n + 1
      flat(i, c) == i * n_blocks + c
      taskarray == [i \in 0..(n - 1) |->
                      [c \in 1..n_blocks |->
                         IF flat(i, c) <= k THEN <<tasks[flat(i, c)]>> ELSE <<>>]]
  IN [i \in 1..n |-> TaskThread(taskarray[i - 1])]

\* handle_request: the envelopes popped from the left of task_queue
to_send_twice(q, n) == SubSeq(q, 1, Min(n, Len(q))) \o SubSeq(q, 1, Min(n, Len(q)))
to_send_right(q, n) == SubSeq(q, Len(q) - Min(n, Len(q)) + 1, Len(q))
to_send(q, n) == SubSeq(q, 1, Min(n, Len(q)))

\* handle_request: what stays in task_queue
RemainingPeek(q, n) == q
Remaining(q, n) == SubSeq(q, Min(n, Len(q)) + 1, Len(q))

\* a PUB socket delivers to the subscribers connected at the time of the send;
\* taskavail messages beyond the high-water mark of a subscriber are dropped
Subscribed(w) == wPc[w] \notin {"off", "term"}
Publish(msg) ==
  [w \in Workers |->
     IF ~Subscribed(w) THEN annq[w]
     ELSE IF msg.kind = "taskavail" /\ Len(annq[w]) >= AnnHWM THEN annq[w]
     ELSE Append(annq[w], msg)]

\* --------------------------------------------- archive (WEMDDataManager)
\* An optional value is <<>> (None) or <<v>>. Row i + 1 of a table holds
\* seg_id i.
RECURSIVE SumSeq(_)
SumSeq(q) == IF q = <<>> THEN 0 ELSE Head(q) + SumSeq(Tail(q))

RECURSIVE SortSet(_)
SortSet(S) ==
  IF S = {} THEN <<>>
  ELSE LET m == CHOOSE x \in S : \A y \in S : x <= y
       IN <<m>> \o SortSet(S \ {m})

\* numpy.zeros((1,), seg_index_dtype) and numpy.zeros((1,), summary_table_dtype)
ZeroRow ==
  [weight |-> 0, cputime |-> 0, walltime |-> 0, parents_offset |-> 0, n_parents |-> 0,
   status |-> 0, endpoint_type |-> 0]
ZeroSummary == [n_iter |-> 0, n_particles |-> 0, norm |-> 0, status |-> 0]
ZeroPcoord == [t \in 1..pcoord_len |-> 0]

\* an absent dataset
NoDataset == [exists |-> FALSE, rows |-> <<>>]

\* prepare_backing: a new archive.  Two fields are history: prepared, the
\* lists prepare_iteration stored, and in_order, true while the only calls
\* that wrote were accepted prepare_iteration calls for iterations 1, 2, ...
NewArchive ==
  [open |-> TRUE, current_iteration |-> 1, summary |-> <<ZeroSummary>>,
   groups |-> <<>>, prepared |-> <<>>, in_order |-> TRUE]
PrepareBacking ==
  /\ ~h5file.open
  /\ h5file' = NewArchive
  /\ call' = [op |-> "prepare_backing", exc |-> "none"]
  /\ UNCHANGED zmqVars

\* the iteration groups of the archive
HasGroup(f, n_iter) == n_iter \in DOMAIN f.groups /\ f.groups[n_iter].exists
NoGroup == [exists |-> FALSE]

\* h5py resize of the summary table: rows kept, new rows zero
Resize(table, len) == [i \in 1..len |-> IF i <= Len(table) THEN table[i] ELSE ZeroSummary]

\* the groups are kept by iteration number; so is the history of the lists
\* prepare_iteration stored (<<>> where none)
SetAt(q, n_iter, v, hole) ==
  [i \in 1..(IF n_iter > Len(q) THEN n_iter ELSE Len(q)) |->
     IF i = n_iter THEN v ELSE IF i <= Len(q) THEN q[i] ELSE hole]

\* prepare_iteration, lines 181-201: the first segment the first loop fails on,
\* 0 if none, and the exception
FirstLoopFails(segment, seg_id) ==
  \/ (segment.seg_id # <<>> /\ segment.seg_id # <<seg_id>>)
  \/ segment.p_parent_id = <<>>
  \/ (segment.pcoord # <<>> /\ Len(segment.pcoord[1]) # 1
        /\ Len(segment.pcoord[1]) # pcoord_len)
FirstLoopExc(segment, seg_id) ==
  IF (segment.seg_id # <<>> /\ segment.seg_id # <<seg_id>>) \/ segment.p_parent_id = <<>>
  THEN "AssertionError" ELSE "ValueError"

\* prepare_iteration, lines 192-201: the pcoord rows the first loop assigns
InitialPcoord(segment) ==
  IF segment.pcoord = <<>> THEN ZeroPcoord
  ELSE IF Len(segment.pcoord[1]) = 1
       THEN [t \in 1..pcoord_len |-> IF t = 1 THEN segment.pcoord[1][1] ELSE 0]
       ELSE segment.pcoord[1]

\* prepare_iteration, lines 207-208: offset[0] = 0, offset[1:] = accumulate(n_parents[:-1])
parents_offset_inclusive(n_parents, i) == SumSeq(SubSeq(n_parents, 1, i))
parents_offset(n_parents, i) == SumSeq(SubSeq(n_parents, 1, i - 1))

\* prepare_iteration, lines 220-240: the second loop fails on this segment
SecondLoopFails(segment) ==
  \/ segment.parent_ids = {}
  \/ segment.p_parent_id[1] \notin segment.parent_ids

\* prepare_iteration, lines 229-239: the primary parent, then the others ascending
parents_sorted(segment) == SortSet(segment.parent_ids)
parents_slice(segment) ==
  <<segment.p_parent_id[1]>> \o SortSet(segment.parent_ids \ {segment.p_parent_id[1]})

\* prepare_iteration(n_iter, segments) on archive f: the archive it leaves
\* and the exception it ends with
prepare_iteration(f, n_iter, segments) ==
  LET n_particles == Len(segments)
      resized == IF Len(f.summary) < n_iter THEN Resize(f.summary, n_iter + 1) ELSE f.summary
      summary_row == [n_iter |-> n_iter, n_particles |-> n_particles,
                      norm |-> SumSeq([i \in 1..n_particles |-> segments[i].weight]),
                      status |-> 0]
      created == [exists |-> TRUE, n_iter |-> n_iter,
                  seg_index |-> [i \in 1..n_particles |-> ZeroRow],
                  pcoord |-> [i \in 1..n_particles |-> ZeroPcoord],
                  parents |-> NoDataset, coords |-> NoDataset]
      started == [f EXCEPT !.summary = [resized EXCEPT ![n_iter] = summary_row],
                           !.groups = SetAt(f.groups, n_iter, created, NoGroup)]
      failing == {i \in 1..n_particles : FirstLoopFails(segments[i], i - 1)}
      n_parents == [i \in 1..n_particles |-> Cardinality(segments[i].parent_ids)]
      seg_index_table ==
        [i \in 1..n_particles |->
           [ZeroRow EXCEPT !.status = segments[i].status, !.weight = segments[i].weight,
                           !.n_parents = n_parents[i],
                           !.parents_offset = parents_offset(n_parents, i)]]
      total_parents == SumSeq(n_parents)
      parents == Concat([i \in 1..n_particles |-> parents_slice(segments[i])], 1, n_particles)
  IN IF HasGroup(f, n_iter)
     THEN [file |-> [f EXCEPT !.summary = resized], exc |-> "ValueError"]
     ELSE IF failing # {}
     THEN [file |-> started,
           exc |-> LET i == CHOOSE i \in failing : \A j \in failing : i <= j
                   IN FirstLoopExc(segments[i], i - 1)]
     ELSE IF n_particles = 0
     THEN [file |-> started, exc |-> "IndexError"]
     ELSE IF total_parents > 0 /\ \E i \in 1..n_particles : SecondLoopFails(segments[i])
     THEN [file |-> [started EXCEPT !.groups[n_iter].parents =
                       [exists |-> TRUE, rows |-> [i \in 1..total_parents |-> 0]]],
           exc |-> "AssertionError"]
     ELSE [file |-> [started EXCEPT
                       !.groups[n_iter].seg_index = seg_index_table,
                       !.groups[n_iter].pcoord = [i \in 1..n_particles |-> InitialPcoord(segments[i])],
                       !.groups[n_iter].parents =
                          IF total_parents > 0 THEN [exists |-> TRUE, rows |-> parents]
                          ELSE NoDataset],
           exc |-> "none"]

PrepareIteration(n_iter, segments) ==
  /\ h5file.open
  /\ LET r == prepare_iteration(h5file, n_iter, segments)
     IN /\ h5file' = [r.file EXCEPT
                        !.prepared = IF r.exc = "none" THEN SetAt(@, n_iter, <<segments>>, <<>>)
                                     ELSE @,
                        !.in_order = @ /\ r.exc = "none" /\ n_iter = Len(h5file.groups) + 1]
        /\ call' = [op |-> "prepare_iteration", n_iter |-> n_iter, segments |-> segments,
                    exc |-> r.exc]
  /\ UNCHANGED zmqVars

\* get_segments(n_iter) on archive f: the segments, or the exception
get_segments(f, n_iter) ==
  IF ~HasGroup(f, n_iter) \/ ~f.groups[n_iter].parents.exists
  THEN [exc |-> "KeyError", result |-> <<>>]
  ELSE LET iter_group == f.groups[n_iter]
           seg_index_table == iter_group.seg_index
           all_parent_ids == iter_group.parents.rows
           parent_ids(row) == SubSeq(all_parent_ids, row.parents_offset + 1,
                                     Min(row.parents_offset + row.n_parents, Len(all_parent_ids)))
           segment(i) ==
             LET row == seg_index_table[i]
             IN [seg_id |-> i - 1, n_iter |-> n_iter, status |-> row.status,
                 n_parents |-> row.n_parents, endpoint_type |-> row.endpoint_type,
                 walltime |-> row.walltime, cputime |-> row.cputime, weight |-> row.weight,
                 pcoord |-> iter_group.pcoord[i],
                 p_parent_id |-> parent_ids(row)[1],
                 parent_ids |-> Range(parent_ids(row))]
       IN IF \E i \in 1..Len(seg_index_table) : parent_ids(seg_index_table[i]) = <<>>
          THEN [exc |-> "IndexError", result |-> <<>>]
          ELSE IF \E i \in 1..Len(seg_index_table) :
                    Cardinality(Range(parent_ids(seg_index_table[i]))) # seg_index_table[i].n_parents
          THEN [exc |-> "AssertionError", result |-> <<>>]
          ELSE [exc |-> "none", result |-> [i \in 1..Len(seg_index_table) |-> segment(i)]]

GetSegments(n_iter) ==
  /\ h5file.open
  /\ LET r == get_segments(h5file, n_iter)
     IN call' = [op |-> "get_segments", n_iter |-> n_iter, exc |-> r.exc, result |-> r.result]
  /\ UNCHANGED <<zmqVars, h5file>>

\* the rising sequence of the numbers in set S
RECURSIVE Ascending(_)
Ascending(S) ==
  IF S = {} THEN <<>>
  ELSE LET m == CHOOSE m \in S : \A x \in S : m <= x
       IN <<m>> \o Ascending(S \ {m})

\* get_segments_by_id(n_iter, seg_ids) on archive f.  The rows of seg_index
\* and parents are read from arrays in memory, in the order of seg_ids; the
\* pcoords are read with one pointwise selection pcoord_ds[seg_ids,...] on
\* the HDF5 dataset, which takes its coordinates in increasing order only
\* and raises TypeError otherwise
get_segments_by_id(f, n_iter, seg_ids) ==
  LET iter_group == f.groups[n_iter]
      all_parent_ids == iter_group.parents.rows
      parent_ids(row) == SubSeq(all_parent_ids, row.parents_offset + 1,
                                Min(row.parents_offset + row.n_parents, Len(all_parent_ids)))
      segment(seg_id) ==
        LET row == iter_group.seg_index[seg_id + 1]
        IN [seg_id |-> seg_id, n_iter |-> n_iter, status |-> row.status,
            n_parents |-> row.n_parents, endpoint_type |-> row.endpoint_type,
            walltime |-> row.walltime, cputime |-> row.cputime, weight |-> row.weight,
            pcoord |-> iter_group.pcoord[seg_id + 1],
            p_parent_id |-> parent_ids(row)[1],
            parent_ids |-> Range(parent_ids(row))]
  IN IF seg_ids = <<>> THEN [exc |-> "none", result |-> <<>>]
     ELSE IF ~HasGroup(f, n_iter) \/ ~f.groups[n_iter].parents.exists
     THEN [exc |-> "KeyError", result |-> <<>>]
     ELSE IF \E k \in 1..Len(seg_ids) :
               \/ seg_ids[k] >= Len(iter_group.seg_index)
               \/ parent_ids(iter_group.seg_index[seg_ids[k] + 1]) = <<>>
     THEN [exc |-> "IndexError", result |-> <<>>]
     ELSE IF \E k \in 1..(Len(seg_ids) - 1) : seg_ids[k] >= seg_ids[k + 1]
     THEN [exc |-> "TypeError", result |-> <<>>]
     ELSE [exc |-> "none", result |-> [k \in 1..Len(seg_ids) |-> segment(seg_ids[k])]]

GetSegmentsByID(n_iter, seg_ids) ==
  /\ h5file.open
  /\ LET r == get_segments_by_id(h5file, n_iter, seg_ids)
     IN call' = [op |-> "get_segments_by_id", n_iter |-> n_iter, seg_ids |-> seg_ids,
                 exc |-> r.exc, result |-> r.result]
  /\ UNCHANGED <<zmqVars, h5file>>

\* lists of distinct seg_ids, in any order
IdLists ==
  {ids \in UNION {[1..k -> 0..(MaxParticles - 1)] : k \in 0..MaxParticles} :
     \A k, l \in 1..Len(ids) : ids[k] = ids[l] => k = l}

\* get_children(segment) on archive f, for the segment seg_id of iteration n_iter
get_children(f, n_iter, seg_id) ==
  IF n_iter = f.current_iteration THEN [exc |-> "none", result |-> <<>>]
  ELSE IF ~HasGroup(f, n_iter + 1) \/ ~f.groups[n_iter + 1].parents.exists
  THEN [exc |-> "KeyError", result |-> <<>>]
  ELSE LET iter_group == f.groups[n_iter + 1]
           all_parent_ids == iter_group.parents.rows
           parent_offsets == [i \in 1..Len(iter_group.seg_index) |->
                                iter_group.seg_index[i].parents_offset]
           seg_ids == Ascending({i - 1 : i \in {j \in 1..Len(parent_offsets) :
                                   all_parent_ids[parent_offsets[j] + 1] = seg_id}})
       IN IF \E i \in 1..Len(parent_offsets) : parent_offsets[i] >= Len(all_parent_ids)
          THEN [exc |-> "IndexError", result |-> <<>>]
          ELSE get_segments_by_id(f, n_iter + 1, seg_ids)

GetChildren(n_iter, seg_id) ==
  /\ h5file.open
  /\ LET r == get_children(h5file, n_iter, seg_id)
     IN call' = [op |-> "get_children", n_iter |-> n_iter, seg_id |-> seg_id,
                 exc |-> r.exc, result |-> r.result]
  /\ UNCHANGED <<zmqVars, h5file>>

\* the setter of current_iteration
SetCurrentIteration(n_iter) ==
  /\ h5file.open
  /\ h5file' = [h5file EXCEPT !.current_iteration = n_iter]
  /\ call' = [op |-> "current_iteration", n_iter |-> n_iter, exc |-> "none"]
  /\ UNCHANGED zmqVars

\* the supplementary dataset update_segments requires for the data field
\* "coords" of the given shape: as it is when it exists, else zero-filled
\* with one row per segment
require_dataset(iter_group, shape) ==
  IF iter_group.coords.exists THEN iter_group.coords
  ELSE [exists |-> TRUE, shape |-> shape,
        rows |-> [i \in 1..Len(iter_group.seg_index) |-> 0]]

\* the loop of update_segments from the k-th segment on: st holds the
\* tables cached in memory (seg_index, pcoord), the dataset written in
\* place (coords) and the exception raised
RECURSIVE UpdateLoopSum(_, _, _)
UpdateLoopSum(st, segments, k) ==
  IF k > Len(segments) THEN st
  ELSE LET segment == segments[k]
           seg_id == segment.seg_id
       IN IF seg_id >= Len(st.seg_index) THEN [st EXCEPT !.exc = "IndexError"]
          ELSE UpdateLoopSum(
                 [st EXCEPT
                    !.seg_index[seg_id + 1] =
                       [@ EXCEPT !.status = segment.status,
                                 !.endpoint_type = IF segment.endpoint_type = <<>> THEN 0
                                                   ELSE segment.endpoint_type[1],
                                 !.cputime = segment.cputime,
                                 !.walltime = segment.walltime,
                                 !.weight = @ + segment.weight],
                    !.pcoord[seg_id + 1] = segment.pcoord[1],
                    !.coords = IF segment.data = <<>> THEN @
                               ELSE [@ EXCEPT !.rows[seg_id + 1] = segment.data[1].value]],
                 segments, k + 1)

RECURSIVE UpdateLoopFresh(_, _, _)
UpdateLoopFresh(st, segments, k) ==
  IF k > Len(segments) THEN st
  ELSE LET segment == segments[k]
           seg_id == segment.seg_id
       IN IF seg_id >= Len(st.seg_index) THEN [st EXCEPT !.exc = "IndexError"]
          ELSE UpdateLoopFresh(
                 [st EXCEPT
                    !.seg_index[seg_id + 1] =
                       [ZeroRow EXCEPT !.status = segment.status,
                                 !.endpoint_type = IF segment.endpoint_type = <<>> THEN 0
                                                   ELSE segment.endpoint_type[1],
                                 !.cputime = segment.cputime,
                                 !.walltime = segment.walltime,
                                 !.weight = segment.weight],
                    !.pcoord[seg_id + 1] = segment.pcoord[1],
                    !.coords = IF segment.data = <<>> THEN @
                               ELSE [@ EXCEPT !.rows[seg_id + 1] = segment.data[1].value]],
                 segments, k + 1)

RECURSIVE UpdateLoopAll(_, _, _)
UpdateLoopAll(st, segments, k) ==
  IF k > Len(segments) THEN st
  ELSE LET segment == segments[k]
           seg_id == segment.seg_id
       IN IF seg_id >= Len(st.seg_index) THEN [st EXCEPT !.exc = "IndexError"]
          ELSE UpdateLoopAll(
                 [st EXCEPT
                    !.seg_index = [i \in 1..Len(@) |->
                       [@[i] EXCEPT !.status = segment.status,
                                 !.endpoint_type = IF segment.endpoint_type = <<>> THEN 0
                                                   ELSE segment.endpoint_type[1],
                                 !.cputime = segment.cputime,
                                 !.walltime = segment.walltime,
                                 !.weight = segment.weight]],
                    !.pcoord[seg_id + 1] = segment.pcoord[1],
                    !.coords = IF segment.data = <<>> THEN @
                               ELSE [@ EXCEPT !.rows[seg_id + 1] = segment.data[1].value]],
                 segments, k + 1)

RECURSIVE UpdateLoop(_, _, _)
UpdateLoop(st, segments, k) ==
  IF k > Len(segments) THEN st
  ELSE LET segment == segments[k]
           seg_id == segment.seg_id
       IN IF seg_id >= Len(st.seg_index) THEN [st EXCEPT !.exc = "IndexError"]
          ELSE UpdateLoop(
                 [st EXCEPT
                    !.seg_index[seg_id + 1] =
                       [@ EXCEPT !.status = segment.status,
                                 !.endpoint_type = IF segment.endpoint_type = <<>> THEN 0
                                                   ELSE segment.endpoint_type[1],
                                 !.cputime = segment.cputime,
                                 !.walltime = segment.walltime,
                                 !.weight = segment.weight],
                    !.pcoord[seg_id + 1] = segment.pcoord[1],
                    !.coords = IF segment.data = <<>> THEN @
                               ELSE [@ EXCEPT !.rows[seg_id + 1] = segment.data[1].value]],
                 segments, k + 1)

\* update_segments(n_iter, segments) on archive f: the archive it leaves
\* and the exception it ends with
update_segments(f, n_iter, segments) ==
  IF ~HasGroup(f, n_iter) THEN [file |-> f, exc |-> "KeyError"]
  ELSE
  LET iter_group == f.groups[n_iter]
      with_data == {i \in 1..Len(segments) : segments[i].data # <<>>}
      data_shape == segments[CHOOSE i \in with_data : \A j \in with_data : i <= j].data[1].shape
      required == IF with_data = {} THEN iter_group.coords
                  ELSE require_dataset(iter_group, data_shape)
      st == UpdateLoop([seg_index |-> iter_group.seg_index, pcoord |-> iter_group.pcoord,
                        coords |-> required, exc |-> "none"], segments, 1)
  IN IF \E i, j \in with_data : segments[i].data[1].shape # segments[j].data[1].shape
     THEN [file |-> f, exc |-> "ValueError"]
     ELSE IF with_data # {} /\ required.shape # data_shape
     THEN [file |-> f, exc |-> "TypeError"]
     ELSE IF st.exc # "none"
     THEN [file |-> [f EXCEPT !.groups[n_iter].coords = st.coords], exc |-> st.exc]
     ELSE [file |-> [f EXCEPT !.groups[n_iter].coords = st.coords,
                              !.groups[n_iter].seg_index = st.seg_index,
                              !.groups[n_iter].pcoord = st.pcoord],
           exc |-> "none"]

UpdateSegments(n_iter, segments) ==
  /\ h5file.open
  /\ LET r == update_segments(h5file, n_iter, segments)
     IN /\ h5file' = r.file
        /\ call' = [op |-> "update_segments", n_iter |-> n_iter, segments |-> segments,
                    exc |-> r.exc]
  /\ UNCHANGED zmqVars

\* the segments a caller hands to update_segments after propagation: the
\* seg_id may lie past the table
Propagated ==
  [seg_id : 0..MaxParticles, status : {2}, endpoint_type : {<<>>, <<1>>},
   cputime : {1}, walltime : {1}, weight : {2},
   pcoord : {<<[t \in 1..pcoord_len |-> 8 + t]>>},
   data : {<<>>, <<[shape |-> 1, value |-> 7]>>}]
PropagatedLists == UNION {[1..k -> Propagated] : k \in 1..MaxBatch}

\* the segments a caller hands to prepare_iteration: seg_id not yet set,
\* weight 1, status 1 (prepared), the starting point as pcoord, and any
\* parent set and primary parent, valid or not
NewSegments ==
  [seg_id : {<<>>}, weight : {1}, status : {1}, pcoord : {<<<<9>>>>},
   parent_ids : SUBSET (0..MaxParent), p_parent_id : {<<p>> : p \in 0..MaxParent}]
SegmentLists == UNION {[1..k -> NewSegments] : k \in 1..MaxParticles}

\* a segment that continues segment 0; lists of them
Continued == [seg_id |-> <<>>, weight |-> 1, status |-> 1, pcoord |-> <<<<9>>>>,
              parent_ids |-> {0}, p_parent_id |-> <<0>>]
PlainLists == {[i \in 1..k |-> Continued] : k \in 1..MaxParticles}

\* the archive: iterations before the last hold plain lists
ArchiveNext ==
  \/ PrepareBacking
  \/ \E n_iter \in 1..MaxIter :
       \E segments \in (IF n_iter = MaxIter THEN SegmentLists ELSE PlainLists) :
         PrepareIteration(n_iter, segments)
  \/ \E n_iter \in 1..MaxIter : GetSegments(n_iter)
  \/ \E n_iter \in 1..MaxIter : SetCurrentIteration(n_iter)
  \/ \E n_iter \in 1..MaxIter : \E seg_id \in 0..(MaxParticles - 1) :
       GetChildren(n_iter, seg_id)

\* lists of segments with one parent or all of 0..MaxParent as parents,
\* segment 0 the primary one
Recombined == {[Continued EXCEPT !.parent_ids = ps] : ps \in {{0}, 0..MaxParent}}
LineageLists == UNION {[1..k -> Recombined] : k \in 1..MaxParticles}

\* the archive while its current iteration is propagated: prepared from
\* lists that differ in their numbers of parents, then updated
UpdateNext ==
  \/ PrepareBacking
  \/ /\ h5file.open
     /\ \E segments \in LineageLists : PrepareIteration(h5file.current_iteration, segments)
  \/ /\ h5file.open
     /\ \E segments \in PropagatedLists : UpdateSegments(h5file.current_iteration, segments)
  \/ /\ h5file.open
     /\ GetSegments(h5file.current_iteration)
  \/ /\ h5file.open
     /\ \E seg_ids \in IdLists : GetSegmentsByID(h5file.current_iteration, seg_ids)

\* the propagated segments that end nowhere
Finished == {segment \in Propagated : segment.endpoint_type = <<>>}
FinishedLists == UNION {[1..k -> Finished] : k \in 1..MaxBatch}

\* the archive with several iterations, any of them updated
FrameNext ==
  \/ PrepareBacking
  \/ \E n_iter \in 1..MaxIter : \E segments \in PlainLists :
       PrepareIteration(n_iter, segments)
  \/ \E n_iter \in 1..MaxIter : \E segments \in FinishedLists :
       UpdateSegments(n_iter, segments)

\* del_iter_summary(min_iter): the summary table it leaves
del_iter_summary_keep(summary, min_iter) == Resize(summary, min_iter)
del_iter_summary(summary, min_iter) == Resize(summary, min_iter - 1)

DelIterSummary(min_iter) ==
  /\ h5file.open
  /\ h5file' = [h5file EXCEPT !.summary = del_iter_summary(@, min_iter),
                              !.in_order = FALSE]
  /\ call' = [op |-> "del_iter_summary", min_iter |-> min_iter, exc |-> "none"]
  /\ UNCHANGED zmqVars

\* the archive and its summary table: iterations prepared in any order,
\* the tail of the summary deleted
SummaryNext ==
  \/ PrepareBacking
  \/ \E n_iter \in 1..MaxIter : \E segments \in LineageLists :
       PrepareIteration(n_iter, segments)
  \/ \E min_iter \in 1..(MaxIter + 1) : DelIterSummary(min_iter)

\* open_backing and close_backing: h5file is the open file, or None
open_backing(f) == [f EXCEPT !.open = TRUE]
close_backing_never(f) == f
close_backing(f) == [f EXCEPT !.open = FALSE]

\* the archive of a run about to propagate its first iteration: prepared
\* with the segments 0..NSegs, each continuing segment 0, and closed
PreparedRun ==
  [prepare_iteration(NewArchive, 1, [i \in 1..(NSegs + 1) |-> Continued]).file
     EXCEPT !.open = FALSE]

\* ------------------------------------------------------------------- Init
\* the work manager and its collaborators after construction
Constructed ==
  /\ task_queue = <<>>
  /\ results_queue = <<>>
  /\ since_contact = abort_interval
  /\ since_announcement = announce_interval
  /\ shutdown_flag = FALSE
  /\ shutdown_exit_code = 0
  /\ sockets = "unbound"
  /\ mainPc = "start"
  /\ payload = <<>>
  /\ rep_to = {}
  /\ main_exc = "none"
  /\ raised = "none"
  /\ lock = "free"
  /\ notified = FALSE
  /\ subPc \in {"propagate", "user"}
  /\ next_task = 1
  /\ completed_ids = {}
  /\ outgoing = [s \in Segs |-> 1]
  /\ faulty = {}
  /\ caller = [pc |-> "idle", exit_code |-> 0]
  /\ cliPc = "idle"
  /\ wPc = [w \in Workers |-> "off"]
  /\ wTasks = [w \in Workers |-> <<>>]
  /\ annq = [w \in Workers |-> <<>>]
  /\ req = [c \in Clients |-> NoMsg]
  /\ rep = [c \in Clients |-> NoMsg]
  /\ since_taskavail = <<>>
  /\ taskavail_gap = <<>>
  /\ shutdown_ann = <<>>
  /\ missed = {}
  /\ call = NoCall

\* no archive yet
Init == Constructed /\ h5file = NoFile

\* the archive prepared for the run, as propagate needs it
RunInit == Constructed /\ h5file = PreparedRun

\* ------------------------------------------------------ dispatcher (ZMaster)
\* announce_tasks, line 151: q is task_queue, a is current_time - self.last_announcement
WouldAnnounceNever(q, a) == Len(q) > 0 /\ a > announce_interval
WouldAnnounce(q, a) == Len(q) > 0 /\ a >= announce_interval

\* announce_tasks, called with q in task_queue when the times since the latest
\* announcement are a (by last_announcement) and p (in fact)
announce_tasks(q, a, p) ==
  IF WouldAnnounce(q, a)
  THEN /\ annq' = Publish([kind |-> "taskavail"])
       /\ since_announcement' = 0
       /\ since_taskavail' = <<0>>
       /\ taskavail_gap' = p
  ELSE /\ since_announcement' = announce_interval
       /\ since_taskavail' = p
       /\ UNCHANGED <<annq, taskavail_gap>>

\* announce_shutdown, p the time since the latest taskavail
announce_shutdown_open(exit_code, p) ==
  /\ annq' = Publish([kind |-> "shutdown", exit_code |-> exit_code])
  /\ shutdown_ann' = Append(shutdown_ann, exit_code)
  /\ sockets' = sockets
  /\ since_taskavail' = p
  /\ UNCHANGED <<taskavail_gap, missed>>
announce_shutdown(exit_code, p) ==
  /\ annq' = Publish([kind |-> "shutdown", exit_code |-> exit_code])
  /\ shutdown_ann' = Append(shutdown_ann, exit_code)
  /\ sockets' = "closed"
  /\ since_taskavail' = p
  /\ UNCHANGED <<taskavail_gap, missed>>

\* main_loop, lines 94-107: bind the sockets, let them settle, note the time
MainStart ==
  /\ mainPc = "start"
  /\ sockets' = "open"
  /\ since_contact' = 0
  /\ mainPc' = "head"
  /\ UNCHANGED <<task_queue, results_queue, since_announcement, payload,
                 rep_to, main_exc, raised, flagVars, dmVars, faulty, cvVars, subVars, workerVars, chanVars, annVars>>

\* main_loop, line 109: the loop condition holds, go on to poll
MainLoopHead ==
  /\ mainPc = "head"
  /\ ~shutdown_flag
  /\ mainPc' = "poll"
  /\ UNCHANGED <<task_queue, results_queue, since_contact, since_announcement,
                 sockets, payload, rep_to, main_exc, raised, flagVars, dmVars, faulty, cvVars, subVars,
                 workerVars, chanVars, annVars>>

\* main_loop, lines 109 and 132-133: the loop condition fails
MainLoopShutdown ==
  /\ mainPc = "head"
  /\ shutdown_flag
  /\ announce_shutdown(shutdown_exit_code, since_taskavail)
  /\ mainPc' = "exited"
  /\ UNCHANGED <<task_queue, results_queue, since_contact, since_announcement,
                 payload, rep_to, main_exc, raised, flagVars, dmVars, faulty, cvVars, subVars, workerVars, chanVars>>

\* main_loop, lines 109 and 133, and announce_shutdown, line 86, when the
\* thread is switched out after the send: the announcement is published
\* and the sockets are still open
AnnounceShutdownSend ==
  /\ mainPc = "head"
  /\ shutdown_flag
  /\ annq' = Publish([kind |-> "shutdown", exit_code |-> shutdown_exit_code])
  /\ shutdown_ann' = Append(shutdown_ann, shutdown_exit_code)
  /\ mainPc' = "closing"
  /\ UNCHANGED <<task_queue, results_queue, since_contact, since_announcement, sockets,
                 payload, rep_to, main_exc, raised, flagVars, dmVars, faulty, cvVars, subVars,
                 workerVars, chanVars, since_taskavail, taskavail_gap, missed>>

\* announce_shutdown, lines 87-91: close the sockets; main_loop returns
AnnounceShutdownClose ==
  /\ mainPc = "closing"
  /\ sockets' = "closed"
  /\ mainPc' = "exited"
  /\ UNCHANGED <<task_queue, results_queue, since_contact, since_announcement,
                 payload, rep_to, main_exc, raised, flagVars, dmVars, faulty, cvVars, subVars,
                 workerVars, chanVars, annVars>>

\* the REP socket is readable: a message is queued and no reply is owed
Readable(c) == req[c] # NoMsg /\ rep_to = {}

\* main_loop, lines 113-117 and handle_request
HandleRequest(c) ==
  /\ mainPc = "poll"
  /\ Readable(c)
  /\ req[c].kind = "request"
  /\ since_contact' = 0
  /\ rep' = [rep EXCEPT ![c] = [kind |-> "tasks", tasks |-> to_send(task_queue, req[c].n)]]
  /\ task_queue' = Remaining(task_queue, req[c].n)
  /\ req' = [req EXCEPT ![c] = NoMsg]
  /\ mainPc' = "head"
  /\ UNCHANGED <<results_queue, since_announcement, sockets, payload, rep_to,
                 main_exc, raised, flagVars, dmVars, faulty, cvVars, subVars, workerVars, cliPc, annVars>>

\* handle_results, line 75: list(payload) needs an iterable payload
Iterable(m) == "results" \in DOMAIN m

\* main_loop, lines 113-119 and handle_results, lines 73-76: the acknowledgement
\* is sent first
HandleResultsAck(c) ==
  /\ mainPc = "poll"
  /\ Readable(c)
  /\ req[c].kind = "results"
  /\ Iterable(req[c])
  /\ since_contact' = 0
  /\ payload' = req[c].results
  /\ rep' = [rep EXCEPT ![c] = [kind |-> "ack"]]
  /\ req' = [req EXCEPT ![c] = NoMsg]
  /\ mainPc' = "append"
  /\ UNCHANGED <<task_queue, results_queue, since_announcement, sockets, rep_to,
                 main_exc, raised, flagVars, dmVars, faulty, cvVars, subVars, workerVars, cliPc, annVars>>

\* handle_results, lines 77-79: one pass of the loop
HandleResultsAppend ==
  /\ mainPc = "append"
  /\ payload # <<>>
  /\ results_queue' = Append(results_queue, Head(payload))
  /\ payload' = Tail(payload)
  /\ UNCHANGED <<task_queue, since_contact, since_announcement, sockets, mainPc,
                 rep_to, main_exc, raised, flagVars, dmVars, faulty, cvVars, subVars, workerVars, chanVars, annVars>>

\* handle_results, lines 80-81: take the lock of results_avail, notify, release
HandleResultsNotify ==
  /\ mainPc = "append"
  /\ payload = <<>>
  /\ lock = "free"
  /\ notified' = (subPc = "wait")
  /\ mainPc' = "head"
  /\ UNCHANGED <<task_queue, results_queue, since_contact, since_announcement,
                 sockets, payload, rep_to, main_exc, raised, flagVars, dmVars, faulty, lock, subVars, workerVars,
                 chanVars, annVars>>

\* handle_results, lines 74-75, and main_loop, lines 137-140: list(payload)
\* raises TypeError before the acknowledgement is sent
HandleResultsRaise(c) ==
  /\ mainPc = "poll"
  /\ Readable(c)
  /\ req[c].kind = "results"
  /\ ~Iterable(req[c])
  /\ since_contact' = 0
  /\ req' = [req EXCEPT ![c] = NoMsg]
  /\ rep_to' = {c}
  /\ raised' = "TypeError"
  /\ main_exc' = "TypeError"
  /\ announce_shutdown(4, since_taskavail)
  /\ mainPc' = "exited"
  /\ UNCHANGED <<task_queue, results_queue, since_announcement, payload,
                 flagVars, dmVars, faulty, cvVars, subVars, workerVars, rep, cliPc>>

\* main_loop, lines 135-136: KeyboardInterrupt raised in the thread while it
\* is inside the loop
MainKeyboardInterrupt ==
  /\ mainPc \in {"head", "poll", "append"}
  /\ raised' = "KeyboardInterrupt"
  /\ announce_shutdown(2, since_taskavail)
  /\ mainPc' = "exited"
  /\ UNCHANGED <<task_queue, results_queue, since_contact, since_announcement,
                 payload, rep_to, main_exc, flagVars, dmVars, faulty, cvVars, subVars, workerVars,
                 chanVars>>

\* main_loop, lines 120-122: a shutdown request
HandleShutdown(c) ==
  /\ mainPc = "poll"
  /\ Readable(c)
  /\ req[c].kind = "shutdown"
  /\ req' = [req EXCEPT ![c] = NoMsg]
  /\ rep_to' = {c}
  /\ announce_shutdown(0, since_taskavail)
  /\ mainPc' = "exited"
  /\ UNCHANGED <<task_queue, results_queue, since_contact, since_announcement,
                 payload, main_exc, raised, flagVars, dmVars, faulty, cvVars, subVars, workerVars, rep, cliPc>>

\* main_loop, lines 123-124: any other kind is logged
HandleInvalid(c) ==
  /\ mainPc = "poll"
  /\ Readable(c)
  /\ req[c].kind \notin {"request", "results", "shutdown"}
  /\ req' = [req EXCEPT ![c] = NoMsg]
  /\ rep_to' = {c}
  /\ mainPc' = "head"
  /\ UNCHANGED <<task_queue, results_queue, since_contact, since_announcement,
                 sockets, payload, main_exc, raised, flagVars, dmVars, faulty, cvVars, subVars, workerVars, rep,
                 cliPc, annVars>>

\* the poll of line 111 returns nothing after check_interval: a time
\* difference d, compared with interval, after the wait
Elapse(d, interval) == Min(d + check_interval, interval)
ElapseHistory(h, interval) == [i \in 1..Len(h) |-> Elapse(h[i], interval)]

\* main_loop, line 127: d is time.time() - self.last_contact
NoClientsNever(d) == d > abort_interval
NoClients(d) == d >= abort_interval

\* main_loop, lines 125-128 and 137-140: no client in abort_interval
PollTimeoutAbort ==
  /\ mainPc = "poll"
  /\ NoClients(Elapse(since_contact, abort_interval))
  /\ since_contact' = Elapse(since_contact, abort_interval)
  /\ since_announcement' = Elapse(since_announcement, announce_interval)
  /\ main_exc' = "RuntimeError"
  /\ raised' = "RuntimeError"
  /\ announce_shutdown(4, ElapseHistory(since_taskavail, announce_interval))
  /\ mainPc' = "exited"
  /\ UNCHANGED <<task_queue, results_queue, payload, rep_to, flagVars, dmVars, faulty, cvVars, subVars,
                 workerVars, chanVars>>

\* main_loop, lines 125-131: time out, announce the queued tasks
PollTimeout ==
  /\ mainPc = "poll"
  /\ ~NoClients(Elapse(since_contact, abort_interval))
  /\ since_contact' = Elapse(since_contact, abort_interval)
  /\ IF task_queue # <<>>
     THEN announce_tasks(task_queue, Elapse(since_announcement, announce_interval),
                         ElapseHistory(since_taskavail, announce_interval))
     ELSE /\ since_announcement' = Elapse(since_announcement, announce_interval)
          /\ since_taskavail' = ElapseHistory(since_taskavail, announce_interval)
          /\ UNCHANGED <<annq, taskavail_gap>>
  /\ mainPc' = "head"
  /\ UNCHANGED <<task_queue, results_queue, sockets, payload, rep_to, main_exc, raised,
                 flagVars, dmVars, faulty, cvVars, subVars, workerVars, chanVars, shutdown_ann,
                 missed>>

\* ZMaster.shutdown, line 175
ShutdownSetFlag(c) ==
  /\ caller.pc = "idle"
  /\ shutdown_flag' = TRUE
  /\ caller' = [pc |-> "flag", exit_code |-> c]
  /\ UNCHANGED <<masterVars, shutdown_exit_code, dmVars, faulty, cvVars, subVars, workerVars,
                 chanVars, annVars>>

\* ZMaster.shutdown, line 176
ShutdownSetCode ==
  /\ caller.pc = "flag"
  /\ shutdown_exit_code' = caller.exit_code
  /\ caller' = [caller EXCEPT !.pc = "done"]
  /\ UNCHANGED <<masterVars, shutdown_flag, dmVars, faulty, cvVars, subVars, workerVars,
                 chanVars, annVars>>

\* ------------------------------------------- submitter (ZMQWorkManager.propagate)
\* propagate, line 408, and dispatch_all: one pass of the loop
DispatchAllAppend ==
  /\ subPc = "propagate"
  /\ next_task <= NBlocks
  /\ task_queue' = Append(task_queue, Task(next_task))
  /\ next_task' = next_task + 1
  /\ UNCHANGED <<results_queue, since_contact, since_announcement, sockets, mainPc,
                 payload, rep_to, main_exc, raised, flagVars, dmVars, faulty, cvVars, subPc, completed_ids, outgoing,
                 workerVars, chanVars, annVars>>

\* dispatch_all returns
DispatchAllDone ==
  /\ subPc = "propagate"
  /\ next_task > NBlocks
  /\ subPc' = "test"
  /\ UNCHANGED <<masterVars, flagVars, dmVars, faulty, cvVars, next_task, completed_ids, outgoing,
                 workerVars, chanVars, annVars>>

\* propagate, line 409: the loop condition
PropagateTest ==
  /\ subPc = "test"
  /\ subPc' = IF Cardinality(completed_ids) < NSegs THEN "acquire" ELSE "reset"
  /\ UNCHANGED <<masterVars, flagVars, dmVars, faulty, cvVars, next_task, completed_ids, outgoing,
                 workerVars, chanVars, annVars>>

\* propagate, line 410: results_avail.acquire(); the lock is reentrant
PropagateAcquire ==
  /\ subPc = "acquire"
  /\ lock \in {"free", "sub"}
  /\ lock' = "sub"
  /\ subPc' = "locked"
  /\ UNCHANGED <<masterVars, flagVars, dmVars, faulty, notified, next_task, completed_ids, outgoing,
                 workerVars, chanVars, annVars>>

\* propagate, line 412: results_avail.wait() enqueues a waiter and releases the lock
PropagateWait ==
  /\ subPc = "locked"
  /\ lock' = "free"
  /\ notified' = FALSE
  /\ subPc' = "wait"
  /\ UNCHANGED <<masterVars, flagVars, dmVars, faulty, next_task, completed_ids, outgoing,
                 workerVars, chanVars, annVars>>

\* results_avail.wait() returns: the waiter was notified and the lock is taken again
PropagateWake ==
  /\ subPc = "wait"
  /\ notified
  /\ lock = "free"
  /\ lock' = "sub"
  /\ notified' = FALSE
  /\ subPc' = "drain"
  /\ UNCHANGED <<masterVars, flagVars, dmVars, faulty, next_task, completed_ids, outgoing,
                 workerVars, chanVars, annVars>>

\* the seg_ids of the segments an envelope brings back
IdsOf(envelope) == Range(envelope.result)
\* the segment seg_id as the propagator returns it
Incoming(seg_id) ==
  [seg_id |-> seg_id, n_iter |-> 1, status |-> 2, endpoint_type |-> <<>>,
   cputime |-> 1, walltime |-> 1, weight |-> 1,
   pcoord |-> <<[t \in 1..pcoord_len |-> 8 + t]>>, data |-> <<>>]

\* propagate, lines 415-441: pop one envelope; list() of its result raises
\* TypeError when the result is None; check the seg_ids, copy the results
\* onto the originals, and commit the batch to the archive, opened before
\* and closed after update_segments unless that raises
PropagatePop ==
  /\ subPc = "drain"
  /\ results_queue # <<>>
  /\ results_queue' = Tail(results_queue)
  /\ LET envelope == Head(results_queue)
         incoming_ids == IdsOf(envelope)
         incoming_segments == [k \in 1..Len(envelope.result) |-> Incoming(envelope.result[k])]
         r == update_segments(open_backing(h5file), incoming_segments[1].n_iter,
                              incoming_segments)
     IN IF envelope.exception # "none"
        THEN subPc' = "TypeError" /\ UNCHANGED <<completed_ids, outgoing, h5file>>
        ELSE IF ~(/\ (Segs \cap incoming_ids) = incoming_ids
                  /\ Cardinality(incoming_ids \cap completed_ids) = 0)
        THEN subPc' = "AssertionError" /\ UNCHANGED <<completed_ids, outgoing, h5file>>
        ELSE /\ completed_ids' = completed_ids \cup incoming_ids
             /\ outgoing' = [s \in Segs |-> IF s \in incoming_ids THEN Incoming(s).status
                                             ELSE outgoing[s]]
             /\ IF incoming_segments = <<>> THEN UNCHANGED <<h5file, subPc>>
                ELSE IF r.exc = "none"
                THEN h5file' = close_backing(r.file) /\ UNCHANGED subPc
                ELSE h5file' = r.file /\ subPc' = r.exc
  /\ UNCHANGED <<task_queue, since_contact, since_announcement, sockets, mainPc,
                 payload, rep_to, main_exc, raised, flagVars, call, faulty, cvVars, next_task, workerVars,
                 chanVars, annVars>>

\* propagate, lines 416-417: results_queue is empty
PropagateDrained ==
  /\ subPc = "drain"
  /\ results_queue = <<>>
  /\ subPc' = "test"
  /\ UNCHANGED <<masterVars, flagVars, dmVars, faulty, cvVars, next_task, completed_ids, outgoing,
                 workerVars, chanVars, annVars>>

\* propagate, line 443, and reset_announce_timer (last_announcement = 0
\* puts the latest announcement further back than any interval); propagate returns
PropagateReturn ==
  /\ subPc = "reset"
  /\ since_announcement' = IF Len(task_queue) = 0 THEN announce_interval
                           ELSE since_announcement
  /\ subPc' = "done"
  /\ UNCHANGED <<task_queue, results_queue, since_contact, sockets, mainPc, payload,
                 rep_to, main_exc, raised, flagVars, dmVars, faulty, cvVars, next_task, completed_ids, outgoing,
                 workerVars, chanVars, annVars>>

\* ------------------------------------------------ submitter (ZMaster.dispatch)
\* dispatch(task): append and announce; ann_socket is None unless the loop runs
Dispatch ==
  /\ subPc = "user"
  /\ next_task <= NBlocks
  /\ task_queue' = Append(task_queue, Task(next_task))
  /\ next_task' = next_task + 1
  /\ IF WouldAnnounce(task_queue', since_announcement) /\ sockets # "open"
     THEN subPc' = "AttributeError" /\ UNCHANGED <<since_announcement, annq, since_taskavail, taskavail_gap>>
     ELSE announce_tasks(task_queue', since_announcement, since_taskavail) /\ UNCHANGED subPc
  /\ UNCHANGED <<results_queue, since_contact, sockets, mainPc, payload, rep_to,
                 main_exc, raised, flagVars, dmVars, faulty, cvVars, completed_ids, outgoing, workerVars, chanVars,
                 shutdown_ann, missed>>

\* ------------------------------------------------------------ worker (ZWorker)
\* listen_loop, lines 224-231: subscribe to the announcements
WorkerStart(w) ==
  /\ wPc[w] = "off"
  /\ wPc' = [wPc EXCEPT ![w] = "listen"]
  /\ missed' = IF since_taskavail # <<>> THEN missed \cup {w} ELSE missed
  /\ UNCHANGED <<masterVars, flagVars, dmVars, faulty, cvVars, subVars, wTasks, chanVars, annq,
                 since_taskavail, taskavail_gap, shutdown_ann>>

\* listen_loop, lines 236-240: a shutdown announcement
WorkerShutdown(w) ==
  /\ wPc[w] = "listen"
  /\ annq[w] # <<>>
  /\ Head(annq[w]).kind = "shutdown"
  /\ annq' = [annq EXCEPT ![w] = Tail(@)]
  /\ wPc' = [wPc EXCEPT ![w] = "term"]
  /\ UNCHANGED <<masterVars, flagVars, dmVars, faulty, cvVars, subVars, wTasks, chanVars,
                 since_taskavail, taskavail_gap, shutdown_ann, missed>>

\* listen_loop, lines 241-249: a taskavail announcement, first request
WorkerTaskAvail(w) ==
  /\ wPc[w] = "listen"
  /\ annq[w] # <<>>
  /\ Head(annq[w]).kind = "taskavail"
  /\ annq' = [annq EXCEPT ![w] = Tail(@)]
  /\ req' = [req EXCEPT ![w] = [kind |-> "request", n |-> n_procs(w)]]
  /\ wPc' = [wPc EXCEPT ![w] = "request"]
  /\ UNCHANGED <<masterVars, flagVars, dmVars, faulty, cvVars, subVars, wTasks, rep, cliPc,
                 since_taskavail, taskavail_gap, shutdown_ann, missed>>

\* listen_loop, lines 248 and 251: the loop goes on while the reply has tasks
AfterReplyOnce(tasks) == "listen"
AfterReply(tasks) == IF tasks # <<>> THEN "run" ELSE "listen"

\* listen_loop, lines 250-251 and 255-257: the reply to a request
WorkerReply(w) ==
  /\ wPc[w] = "request"
  /\ rep[w] # NoMsg
  /\ rep' = [rep EXCEPT ![w] = NoMsg]
  /\ wTasks' = [wTasks EXCEPT ![w] = rep[w].tasks]
  /\ wPc' = [wPc EXCEPT ![w] = AfterReply(rep[w].tasks)]
  /\ UNCHANGED <<masterVars, flagVars, dmVars, faulty, cvVars, subVars, req, cliPc, annVars>>

\* listen_loop, lines 252-253: run the tasks, send the results
WorkerDoTasks(w) ==
  /\ wPc[w] = "run"
  /\ req' = [req EXCEPT ![w] = [kind |-> "results", results |-> do_tasks(wTasks[w], n_procs(w))]]
  /\ wTasks' = [wTasks EXCEPT ![w] = <<>>]
  /\ wPc' = [wPc EXCEPT ![w] = "results"]
  /\ UNCHANGED <<masterVars, flagVars, dmVars, faulty, cvVars, subVars, rep, cliPc, annVars>>

\* listen_loop, line 252: do_tasks never returns (a task thread is stuck in
\* the propagator); the worker keeps its tasks and sends no results
WorkerHangs(w) ==
  /\ wPc[w] = "run"
  /\ wPc' = [wPc EXCEPT ![w] = "hung"]
  /\ UNCHANGED <<masterVars, flagVars, dmVars, faulty, cvVars, subVars, wTasks, chanVars, annVars>>

\* listen_loop, lines 254 and 248-249: the acknowledgement, next request
WorkerAck(w) ==
  /\ wPc[w] = "results"
  /\ rep[w] # NoMsg
  /\ rep' = [rep EXCEPT ![w] = NoMsg]
  /\ req' = [req EXCEPT ![w] = [kind |-> "request", n |-> n_procs(w)]]
  /\ wPc' = [wPc EXCEPT ![w] = "request"]
  /\ UNCHANGED <<masterVars, flagVars, dmVars, faulty, cvVars, subVars, wTasks, cliPc, annVars>>

\* ------------------------------------------- a bare client of the task endpoint
ClientMsgs == {[kind |-> "shutdown"], [kind |-> "status"], [kind |-> "request", n |-> 0]}
ClientSend(m) ==
  /\ cliPc = "idle"
  /\ req' = [req EXCEPT ![Client] = m]
  /\ cliPc' = "sent"
  /\ UNCHANGED <<masterVars, flagVars, dmVars, faulty, cvVars, subVars, workerVars, rep, annVars>>

\* a results message whose payload is None
BadMsgs == {[kind |-> "results"]}

ClientReply ==
  /\ cliPc = "sent"
  /\ rep[Client] # NoMsg
  /\ rep' = [rep EXCEPT ![Client] = NoMsg]
  /\ cliPc' = "done"
  /\ UNCHANGED <<masterVars, flagVars, dmVars, faulty, cvVars, subVars, workerVars, req, annVars>>

\* ------------------------------------------------------------- specification
\* the steps of the main loop when only workers talk to it and nobody calls shutdown
ServeWorkers ==
  \/ MainStart
  \/ MainLoopHead
  \/ \E c \in Clients : HandleRequest(c)
  \/ \E c \in Clients : HandleResultsAck(c)
  \/ HandleResultsAppend
  \/ HandleResultsNotify
  \/ PollTimeoutAbort
  \/ PollTimeout

\* the steps that answer a bare client
ServeClient ==
  \/ \E c \in Clients : HandleShutdown(c)
  \/ \E c \in Clients : HandleInvalid(c)

MainLoop ==
  \/ ServeWorkers
  \/ MainLoopShutdown
  \/ ServeClient

Submitter ==
  \/ DispatchAllAppend
  \/ DispatchAllDone
  \/ PropagateTest
  \/ PropagateAcquire
  \/ PropagateWait
  \/ PropagateWake
  \/ PropagatePop
  \/ PropagateDrained
  \/ PropagateReturn
  \/ Dispatch

Worker(w) ==
  \/ WorkerStart(w)
  \/ WorkerShutdown(w)
  \/ WorkerTaskAvail(w)
  \/ WorkerReply(w)
  \/ WorkerDoTasks(w)
  \/ WorkerAck(w)

ShutdownCall ==
  \/ \E c \in ExitCodes : ShutdownSetFlag(c)
  \/ ShutdownSetCode

BareClient ==
  \/ \E m \in ClientMsgs : ClientSend(m)
  \/ ClientReply

\* the submitter, the main loop and the workers
Next ==
  \/ ServeWorkers
  \/ Submitter
  \/ \E w \in Workers : Worker(w)

Spec == RunInit /\ [][Next]_vars

\* the specifications below start the first NLive workers only
LiveWorkers == 1..NLive
LiveNext ==
  \/ ServeWorkers
  \/ Submitter
  \/ \E w \in LiveWorkers : Worker(w)

\* with a thread that calls ZMaster.shutdown
ShutdownNext ==
  \/ LiveNext
  \/ MainLoopShutdown
  \/ ShutdownCall

ShutdownSpec == RunInit /\ [][ShutdownNext]_vars

\* with a bare client of the task endpoint
ClientNext ==
  \/ LiveNext
  \/ ServeClient
  \/ BareClient

ClientSpec == RunInit /\ [][ClientNext]_vars

\* with a thread that calls ZMaster.shutdown, the main loop thread switched
\* out inside announce_shutdown
CloseNext ==
  \/ LiveNext
  \/ ShutdownCall
  \/ AnnounceShutdownSend
  \/ AnnounceShutdownClose

CloseSpec == RunInit /\ [][CloseNext]_vars

\* with a keyboard interrupt delivered to the main loop thread and a client
\* that sends a malformed results message
ExceptNext ==
  \/ LiveNext
  \/ MainKeyboardInterrupt
  \/ \E c \in Clients : HandleResultsRaise(c)
  \/ \E m \in BadMsgs : ClientSend(m)

ExceptSpec == RunInit /\ [][ExceptNext]_vars

\* ------------------------------------------------ direct calls of operations
\* the lists of 1..MaxTasks envelopes a caller can hand to do_tasks
TaskLists == UNION {[1..k -> {Task(b) : b \in 1..NBlocks}] : k \in 1..MaxTasks}

\* ZWorker.do_tasks(tasks) on a worker with n task threads
CallDoTasks(tasks, n) ==
  /\ call.op = "none"
  /\ call' = [op |-> "do_tasks", tasks |-> tasks, n_procs |-> n,
              threads |-> thread_results(tasks, n),
              results |-> do_tasks(tasks, n)]
  /\ UNCHANGED <<zmqVars, h5file>>

\* propagate, lines 398-408, for n segments and a blocksize: the envelopes
\* handed to dispatch_all, and the seg_ids their results carry once run
CallPropagateBlocks(n, bs) ==
  LET segments == [i \in 1..n |-> i]
      bl == blocks(segments, bs)
      tasks == [j \in 1..Len(bl) |-> Envelope(j, bl[j])]
  IN /\ call.op = "none"
     /\ call' = [op |-> "propagate_blocks", segments |-> segments, blocksize |-> bs,
                 tasks |-> tasks,
                 returned |-> Concat([j \in 1..Len(tasks) |-> RunTask(tasks[j]).result],
                                     1, Len(tasks))]
     /\ UNCHANGED <<zmqVars, h5file>>

\* a segment of the caller before propagation (status 1: prepared) and the
\* segments a propagator can send back for it (status 2: complete, 3: failed);
\* data is the set of the (name, value) pairs of the auxiliary fields
Original(id) ==
  [seg_id |-> id, status |-> 1, cputime |-> 0, walltime |-> 0, pcoord |-> <<id, 0>>,
   data |-> {}]
Returned(id) ==
  [seg_id : {id}, status : {2, 3}, cputime : {1, 2}, walltime : {1},
   pcoord : {<<id, 1>>, <<id, 2>>}, data : {{}, {<<"coords", id>>}}]

\* the batches of results: at most MaxBatch segments with distinct seg_ids
Batches ==
  {q \in UNION {[1..k -> UNION {Returned(id) : id \in Segs}] : k \in 1..MaxBatch} :
     \A i, j \in 1..Len(q) : i # j => q[i].seg_id # q[j].seg_id}

\* propagate, lines 430-435: the fields copied onto the original segment
copy_back(orig_segment, incoming_segment) ==
  [orig_segment EXCEPT !.status = incoming_segment.status,
                       !.walltime = incoming_segment.walltime,
                       !.cputime = incoming_segment.cputime,
                       !.pcoord = incoming_segment.pcoord]

\* propagate, lines 419-435, for one batch of incoming segments
CallCopyBack(incoming_segments) ==
  LET outgoing_by_id == [id \in Segs |-> Original(id)]
      incoming_by_id == [id \in {incoming_segments[i].seg_id : i \in 1..Len(incoming_segments)} |->
                           CHOOSE seg \in Range(incoming_segments) : seg.seg_id = id]
  IN /\ call.op = "none"
     /\ call' = [op |-> "copy_back", incoming |-> incoming_segments,
                 outgoing |-> [id \in Segs |->
                                 IF id \in DOMAIN incoming_by_id
                                 THEN copy_back(outgoing_by_id[id], incoming_by_id[id])
                                 ELSE outgoing_by_id[id]]]
     /\ UNCHANGED <<zmqVars, h5file>>

CallNext ==
  \/ \E incoming_segments \in Batches : CallCopyBack(incoming_segments)
  \/ \E tasks \in TaskLists, n \in 1..MaxProcs : CallDoTasks(tasks, n)
  \/ \E n \in 0..MaxCallSegs, bs \in 1..MaxBlocksize : CallPropagateBlocks(n, bs)

CallSpec == Init /\ [][CallNext]_vars

\* ------------------------------------------ specifications of the archive
ArchiveSpec == Init /\ [][ArchiveNext]_vars
UpdateSpec == Init /\ [][UpdateNext]_vars
SummarySpec == Init /\ [][SummaryNext]_vars
FrameSpec == Init /\ [][FrameNext]_vars

\* every thread that can take a step eventually takes one; a worker process
\* may be started at any time or never
WorkerRuns(w) ==
  \/ WorkerShutdown(w)
  \/ WorkerTaskAvail(w)
  \/ WorkerReply(w)
  \/ WorkerDoTasks(w)
  \/ WorkerAck(w)

\* the main loop reads a message that stays queued on its socket
Receive ==
  \/ \E c \in Clients : HandleRequest(c)
  \/ \E c \in Clients : HandleResultsAck(c)
  \/ ServeClient

Fairness ==
  /\ WF_vars(MainLoop)
  /\ SF_vars(Receive)
  /\ WF_vars(Submitter)
  /\ \A w \in Workers : WF_vars(WorkerRuns(w))

\* every thread scheduled fairly
LiveSpec == RunInit /\ [][LiveNext]_vars /\ Fairness

\* with workers that may hang in their tasks
DropNext ==
  \/ LiveNext
  \/ \E w \in LiveWorkers : WorkerHangs(w)

DropSpec == RunInit /\ [][DropNext]_vars /\ Fairness

\* the propagator configured for the run raises on segment s
PropagatorBreaks(s) ==
  /\ subPc = "propagate"
  /\ next_task = 1
  /\ s \notin faulty
  /\ faulty' = faulty \cup {s}
  /\ UNCHANGED <<masterVars, flagVars, dmVars, cvVars, subVars, workerVars, chanVars, annVars>>

\* with a propagator that may raise
FaultNext ==
  \/ LiveNext
  \/ \E s \in Segs : PropagatorBreaks(s)

FaultSpec == RunInit /\ [][FaultNext]_vars /\ Fairness

\* ------------------------------------------------------------------ claims

\* C1: in every interleaving of propagate, the main loop and the workers,
\* neither assertion of propagate fails (every seg_id popped belongs to the
\* outgoing ones and none is popped twice), and propagate leaves its loop
\* only when completed_ids is the set of the seg_ids of the segments.
AtMostOnceDelivery ==
  /\ subPc # "AssertionError"
  /\ subPc \in {"reset", "done"} => completed_ids = Segs

PropagateReturned == subPc = "done" /\ completed_ids = Segs

\* every envelope handed to dispatch_all has come back and handle_results has
\* finished with it: none is queued, held by a worker or in a message, and the
\* main loop is not inside handle_results
AllResultsHandled ==
  /\ subPc \notin {"propagate", "user"}
  /\ task_queue = <<>>
  /\ payload = <<>>
  /\ mainPc # "append"
  /\ \A w \in Workers :
       /\ wPc[w] # "run"
       /\ req[w].kind # "results"
       /\ ~(rep[w].kind = "tasks" /\ rep[w].tasks # <<>>)

\* C2: a notification of results_avail issued before the submitter waits is
\* not lost: once every result has been handled, propagate is not left in
\* wait() with no notification pending (it would never return).
NoLostWakeup == ~(AllResultsHandled /\ subPc = "wait" /\ ~notified)

OneReplyPerRequest == mainPc \in {"head", "poll", "exited"} => rep_to = {}

\* C5: two consecutive taskavail publications are at least announce_interval
\* apart.
AnnounceRateLimit == \A i \in 1..Len(taskavail_gap) : taskavail_gap[i] >= announce_interval

\* dispatch_all has queued the tasks of propagate
Queued == subPc \in {"test", "acquire", "locked", "wait", "drain"}

\* the main loop is running
Running == mainPc \in {"head", "poll", "append"}

HasTaskAvail(w) == \E i \in 1..Len(annq[w]) : annq[w][i].kind = "taskavail"

\* worker w has subscribed after the tasks were queued and has no taskavail
\* to receive, and the poll timeout that follows a full announce_interval
\* comes before the main loop gives up for lack of contact
LateJoiner(w) ==
  /\ Queued
  /\ task_queue # <<>>
  /\ wPc[w] = "listen"
  /\ annq[w] = <<>>
  /\ mainPc \in {"head", "poll"}
  /\ since_contact + announce_interval + check_interval < abort_interval

\* every envelope has been taken from task_queue and its result appended to
\* results_queue
AllAppended ==
  /\ task_queue = <<>>
  /\ payload = <<>>
  /\ \A w \in Workers :
       /\ wPc[w] # "run"
       /\ req[w].kind # "results"
       /\ ~(rep[w].kind = "tasks" /\ rep[w].tasks # <<>>)

\* C6: a worker that subscribes after the tasks were queued, having missed
\* every taskavail, is sent another taskavail while task_queue is non-empty;
\* and while the main loop runs every queued task is eventually dequeued and
\* its result appended to results_queue.
SlowJoinerServed ==
  /\ \A w \in LiveWorkers : LateJoiner(w) ~> (HasTaskAvail(w) \/ task_queue = <<>>)
  /\ (Queued /\ Running) ~> (AllAppended \/ mainPc = "exited")

\* the only worker started subscribed after the tasks were queued and a
\* taskavail was published, and the results of all the tasks are in results_queue
LateJoinerWorked ==
  /\ Queued
  /\ AllAppended
  /\ Len(results_queue) = NBlocks
  /\ \E w \in missed : \A v \in Workers \ {w} : wPc[v] = "off"

\* the main loop thread has ended for lack of clients
Fatal ==
  /\ mainPc = "exited"
  /\ main_exc = "RuntimeError"
  /\ sockets = "closed"
  /\ shutdown_ann # <<>>
  /\ shutdown_ann[Len(shutdown_ann)] # 0

BlockedOnReturnedSubmitter ==
  /\ mainPc = "append"
  /\ payload = <<>>
  /\ lock = "sub"
  /\ subPc = "done"

\* C8: after shutdown() is called while the main loop runs, the loop goes on
\* to announce the shutdown, close its sockets and exit, also when it is
\* handling a results message: it is never held for good inside handle_results.
ShutdownHonoured == ~(shutdown_flag /\ BlockedOnReturnedSubmitter)

\* worker w was sent the shutdown announcement but waits on its task socket
\* for a reply that the main loop, which has exited, will never send
StuckWorker(w) ==
  /\ mainPc = "exited"
  /\ \E i \in 1..Len(annq[w]) : annq[w][i].kind = "shutdown"
  /\ wPc[w] \in {"request", "results"}
  /\ rep[w] = NoMsg

\* C9: every worker subscribed when the shutdown announcement is published
\* goes on to leave its listen loop, whatever it was doing: none is left
\* waiting on its task socket for good.
WorkersLeaveOnShutdown == \A w \in Workers : ~StuckWorker(w)

\* C10: the exchange of a worker on the task socket alternates: a request is
\* sent on a taskavail or on the acknowledgement of results; results are sent
\* once for a non-empty reply, one per task received; the worker waits for
\* each reply before it sends again; and it returns to its announcements
\* exactly when a reply is empty.
WorkerAlternates ==
  /\ [](\A w \in Workers :
          /\ ~(req[w] # NoMsg /\ rep[w] # NoMsg)
          /\ wPc[w] \in {"off", "listen", "run", "term"} => (req[w] = NoMsg /\ rep[w] = NoMsg)
          /\ wPc[w] = "request" => (req[w].kind = "request" \/ rep[w].kind = "tasks")
          /\ wPc[w] = "results" => (req[w].kind = "results" \/ rep[w].kind = "ack"))
  /\ [][\A w \in Workers :
          /\ (req'[w].kind = "request" /\ req'[w] # req[w]) =>
                \/ wPc[w] = "listen" /\ Head(annq[w]).kind = "taskavail"
                \/ wPc[w] = "results" /\ rep[w].kind = "ack"
          /\ (req'[w].kind = "results" /\ req'[w] # req[w]) =>
                /\ wPc[w] = "run"
                /\ wTasks[w] # <<>>
                /\ Len(req'[w].results) = Len(wTasks[w])
          /\ (wPc[w] = "request" /\ wPc'[w] # "request") =>
                /\ rep[w].kind = "tasks"
                /\ wPc'[w] = "listen" <=> rep[w].tasks = <<>>
                /\ wPc'[w] = "run" <=> rep[w].tasks # <<>>]_vars

\* a worker has the acknowledgement of its results and is about to ask again
ResultsAcknowledged == \E w \in Workers : wPc[w] = "results" /\ rep[w].kind = "ack"

\* C11: a keyboard interrupt in the main loop is answered by the announcement
\* (shutdown, 2) and is not re-raised; any other exception raised in the loop
\* (the no-clients abort, a failing handler) is answered by the announcement
\* (shutdown, 4) and then ends the thread; in both cases nothing else is
\* announced and both sockets are closed.
ExceptionAnnounced ==
  /\ raised = "KeyboardInterrupt" =>
       /\ mainPc = "exited"
       /\ shutdown_ann = <<2>>
       /\ main_exc = "none"
       /\ sockets = "closed"
  /\ raised \notin {"none", "KeyboardInterrupt"} =>
       /\ mainPc = "exited"
       /\ shutdown_ann = <<4>>
       /\ main_exc = raised
       /\ sockets = "closed"

\* a subscribed worker has been sent (shutdown, 2) after a keyboard interrupt
InterruptAnnounced ==
  /\ raised = "KeyboardInterrupt"
  /\ \E w \in Workers : \E i \in 1..Len(annq[w]) :
       annq[w][i] = [kind |-> "shutdown", exit_code |-> 2]
\* the number of envelopes of list q with task_id b
CountId(q, b) == Cardinality({i \in 1..Len(q) : q[i].task_id = b})

\* C12: do_tasks returns every task it was given exactly once, run: the result
\* list is as long as the task list and holds each envelope as often as the
\* task list does; the empty cells of the array add nothing.
FanOutExactlyOnce ==
  call.op = "do_tasks" =>
    /\ Len(call.results) = Len(call.tasks)
    /\ \A b \in 1..NBlocks : CountId(call.results, b) = CountId(call.tasks, b)
    /\ \A i \in 1..Len(call.results) : call.results[i].completed

\* do_tasks has run a list that leaves cells of a several-column array empty
FanOutRagged ==
  /\ call.op = "do_tasks"
  /\ Len(call.tasks) > call.n_procs
  /\ Len(call.tasks) % call.n_procs # 0
  /\ Len(call.results) = Len(call.tasks)
OriginalsCarryResults ==
  call.op = "copy_back" =>
    \A i \in 1..Len(call.incoming) :
      LET incoming_segment == call.incoming[i]
          orig_segment == call.outgoing[incoming_segment.seg_id]
      IN /\ orig_segment.status = incoming_segment.status
         /\ orig_segment.cputime = incoming_segment.cputime
         /\ orig_segment.walltime = incoming_segment.walltime
         /\ orig_segment.pcoord = incoming_segment.pcoord
         /\ orig_segment.data = incoming_segment.data

\* a list prepare_iteration is meant to accept: every parent set non-empty
\* and holding the primary parent
ValidSegments(segments) ==
  \A i \in 1..Len(segments) :
    /\ segments[i].parent_ids # {}
    /\ segments[i].p_parent_id # <<>>
    /\ segments[i].p_parent_id[1] \in segments[i].parent_ids

\* the list iteration n_iter was prepared from (<<>> when it was not)
Prepared(n_iter) ==
  IF h5file.open /\ n_iter <= Len(h5file.prepared) THEN h5file.prepared[n_iter] ELSE <<>>

\* C15: get_segments(n) after prepare_iteration(n, segs) with a valid list
\* returns, at each position i, the parent_ids and p_parent_id of segs[i],
\* and that p_parent_id is parents[parents_offset[i]]
LineageRoundTrip ==
  (/\ call.op = "get_segments"
   /\ Prepared(call.n_iter) # <<>>
   /\ ValidSegments(Prepared(call.n_iter)[1]))
  => LET segs == Prepared(call.n_iter)[1]
         iter_group == h5file.groups[call.n_iter]
     IN /\ call.exc = "none"
        /\ Len(call.result) = Len(segs)
        /\ \A i \in 1..Len(segs) :
             /\ call.result[i].parent_ids = segs[i].parent_ids
             /\ call.result[i].p_parent_id = segs[i].p_parent_id[1]
             /\ call.result[i].p_parent_id =
                  iter_group.parents.rows[iter_group.seg_index[i].parents_offset + 1]

\* a list whose second segment has two parents, the larger one primary, read back
SecondaryParentReadBack ==
  /\ call.op = "get_segments"
  /\ call.exc = "none"
  /\ Len(call.result) = 2
  /\ Prepared(call.n_iter) # <<>>
  /\ Prepared(call.n_iter)[1][2].parent_ids = {0, 1}
  /\ Prepared(call.n_iter)[1][2].p_parent_id = <<1>>
  /\ call.result[2].p_parent_id = 1


\* C17: in every iteration group, whatever prepare_iteration and
\* update_segments calls came before, parents_offset[0] = 0 and
\* parents_offset[i] = parents_offset[i-1] + n_parents[i-1] for i >= 1
PrefixSumOffsets ==
  h5file.open =>
    \A n_iter \in 1..Len(h5file.groups) :
      h5file.groups[n_iter].exists =>
        LET seg_index == h5file.groups[n_iter].seg_index
        IN \A i \in 1..Len(seg_index) :
             seg_index[i].parents_offset =
               IF i = 1 THEN 0
               ELSE seg_index[i - 1].parents_offset + seg_index[i - 1].n_parents

\* an iteration whose first segment has two parents, prepared and then updated
UpdatedAfterTwoParents ==
  /\ call.op = "update_segments"
  /\ call.exc = "none"
  /\ Len(h5file.groups[call.n_iter].seg_index) >= 2
  /\ h5file.groups[call.n_iter].seg_index[1].n_parents = 2
  /\ h5file.groups[call.n_iter].seg_index[2].parents_offset = 2
  /\ h5file.groups[call.n_iter].seg_index[2].status = 2


\* C18: after prepare_iteration(n, segs) the seg_ids of iteration n are
\* 0..n_particles-1, the row of seg_id i holds the i-th segment of the list,
\* and get_segments(n) returns the segments in that order
DenseIdsInOrder ==
  \A n_iter \in 1..MaxIter :
    Prepared(n_iter) # <<>> =>
      LET segs == Prepared(n_iter)[1]
          seg_index == h5file.groups[n_iter].seg_index
      IN /\ Len(seg_index) = Len(segs)
         /\ \A i \in 1..Len(segs) :
              /\ seg_index[i].weight = segs[i].weight
              /\ seg_index[i].n_parents = Cardinality(segs[i].parent_ids)
         /\ (call.op = "get_segments" /\ call.n_iter = n_iter) =>
              /\ call.exc = "none"
              /\ Len(call.result) = Len(segs)
              /\ \A i \in 1..Len(segs) :
                   /\ call.result[i].seg_id = i - 1
                   /\ call.result[i].parent_ids = segs[i].parent_ids


\* the lineage of the archive: per iteration group, the number of rows, each
\* row's n_parents and parents_offset, and the parents vector
Lineage(f) ==
  [n_iter \in 1..Len(f.groups) |->
     IF ~f.groups[n_iter].exists THEN <<>>
     ELSE <<[i \in 1..Len(f.groups[n_iter].seg_index) |->
               <<f.groups[n_iter].seg_index[i].n_parents,
                 f.groups[n_iter].seg_index[i].parents_offset>>],
            f.groups[n_iter].parents>>]

\* C19: update_segments never changes the lineage: the rows, their
\* n_parents and parents_offset and the parents vector are the same before
\* and after the call
UpdateKeepsLineage ==
  [][call'.op = "update_segments" => Lineage(h5file') = Lineage(h5file)]_vars

\* an update has rewritten the second row of an iteration whose segments
\* have two parents each
TwoParentRowUpdated ==
  /\ call.op = "update_segments"
  /\ call.exc = "none"
  /\ \E k \in 1..Len(call.segments) : call.segments[k].seg_id = 1
  /\ h5file.groups[call.n_iter].seg_index[2].status = 2
  /\ h5file.groups[call.n_iter].seg_index[2].n_parents = 2
  /\ h5file.groups[call.n_iter].seg_index[2].parents_offset = 2
  /\ Len(h5file.groups[call.n_iter].parents.rows) = 4

\* C20: update_segments(n, segments) applied again to the archive an
\* accepted update_segments(n, segments) left is accepted and leaves the
\* same archive
UpdateIdempotent ==
  (call.op = "update_segments" /\ call.exc = "none")
  => update_segments(h5file, call.n_iter, call.segments) = [file |-> h5file, exc |-> "none"]

\* an accepted update that named the same segment twice, with different
\* endpoint types and supplementary data, and changed the stored weight
RepeatedSegmentUpdated ==
  /\ call.op = "update_segments"
  /\ call.exc = "none"
  /\ Len(call.segments) = 2
  /\ call.segments[1].seg_id = call.segments[2].seg_id
  /\ call.segments[1].endpoint_type # call.segments[2].endpoint_type
  /\ call.segments[1].data # <<>>
  /\ h5file.groups[call.n_iter].seg_index[call.segments[1].seg_id + 1].weight = 2
  /\ h5file.groups[call.n_iter].coords.exists


\* C16: for a segment s of an iteration n < current_iteration,
\* get_children(s) returns exactly the segments of iteration n+1 whose
\* p_parent_id is s.seg_id, and none that has s as another parent only
ChildrenByPrimaryParent ==
  (/\ call.op = "get_children"
   /\ call.n_iter < h5file.current_iteration
   /\ Prepared(call.n_iter) # <<>>
   /\ call.seg_id < Len(Prepared(call.n_iter)[1])
   /\ Prepared(call.n_iter + 1) # <<>>)
  => LET segs == Prepared(call.n_iter + 1)[1]
     IN /\ call.exc = "none"
        /\ {call.result[k].seg_id : k \in 1..Len(call.result)} =
             {i - 1 : i \in {j \in 1..Len(segs) : segs[j].p_parent_id = <<call.seg_id>>}}
        /\ \A k, l \in 1..Len(call.result) :
             call.result[k].seg_id = call.result[l].seg_id => k = l


\* C21: prepare_iteration ends with an error whenever a segment of the list
\* has an empty parent_ids or a p_parent_id outside its parent_ids, also
\* when every segment of the list has an empty parent_ids
InvalidListRejected ==
  (call.op = "prepare_iteration" /\ ~ValidSegments(call.segments)) => call.exc # "none"


\* C22: for every stored iteration n > 1 that prepare_iteration accepted,
\* every stored parent id lies in 0 .. n_particles(n-1) - 1
ParentsInPreviousIteration ==
  \A n_iter \in 2..MaxIter :
    (Prepared(n_iter) # <<>> /\ Prepared(n_iter - 1) # <<>>) =>
      LET all_parent_ids == h5file.groups[n_iter].parents.rows
          n_particles == Len(h5file.groups[n_iter - 1].seg_index)
      IN \A k \in 1..Len(all_parent_ids) : all_parent_ids[k] \in 0..(n_particles - 1)


\* C23: for any list of ids of iteration n, in any order,
\* get_segments_by_id(n, ids) returns, in the order of ids, records equal in
\* every field to those get_segments(n) returns for these ids
ByIdEqualsBulk ==
  (/\ call.op = "get_segments_by_id"
   /\ get_segments(h5file, call.n_iter).exc = "none"
   /\ \A k \in 1..Len(call.seg_ids) :
        call.seg_ids[k] < Len(get_segments(h5file, call.n_iter).result))
  => /\ call.exc = "none"
     /\ Len(call.result) = Len(call.seg_ids)
     /\ \A k \in 1..Len(call.seg_ids) :
          call.result[k] = get_segments(h5file, call.n_iter).result[call.seg_ids[k] + 1]


\* C24: del_iter_summary(min_iter) leaves the summary table with exactly
\* min_iter - 1 rows, the rows it keeps unchanged, and deletes no iteration group
DelIterSummaryTruncates ==
  [][call'.op = "del_iter_summary" =>
       /\ Len(h5file'.summary) = call'.min_iter - 1
       /\ \A i \in 1..Min(Len(h5file.summary), call'.min_iter - 1) :
            h5file'.summary[i] = h5file.summary[i]
       /\ h5file'.groups = h5file.groups]_vars

\* the summary of two prepared iterations cut back to the row of the first,
\* the group of the second still stored
SummaryCutToFirst ==
  /\ call.op = "del_iter_summary"
  /\ call.min_iter = 2
  /\ Prepared(1) # <<>>
  /\ Prepared(2) # <<>>
  /\ Len(h5file.summary) = 1
  /\ h5file.summary[1].n_iter = 1
  /\ h5file.summary[1].n_particles = Len(Prepared(1)[1])
  /\ HasGroup(h5file, 2)

\* C25: after prepare_backing and prepare_iteration for iterations 1..N in
\* order the summary table has N rows, row n that of iteration n, with
\* n_particles the length of its seg_index and status incomplete
OneSummaryRowPerIteration ==
  (/\ call.op = "prepare_iteration"
   /\ call.exc = "none"
   /\ h5file.in_order)
  => /\ Len(h5file.summary) = call.n_iter
     /\ \A n_iter \in 1..call.n_iter :
          /\ h5file.summary[n_iter].n_iter = n_iter
          /\ h5file.summary[n_iter].n_particles = Len(h5file.groups[n_iter].seg_index)
          /\ h5file.summary[n_iter].status = 0


\* C29: of k tasks on n_procs threads, task j (counted from 0) is executed
\* by thread j mod n_procs, and each thread executes its tasks in rising j
ColumnMajorLayout ==
  call.op = "do_tasks" =>
    \A i \in 0..(call.n_procs - 1) :
      LET mine == Ascending({j \in 0..(Len(call.tasks) - 1) : j % call.n_procs = i})
      IN call.threads[i + 1] = [c \in 1..Len(mine) |-> RunTask(call.tasks[mine[c] + 1])]


\* C26: whenever the loop times out with task_queue empty, last_announcement
\* is reset, so that the time since the latest announcement counts as
\* announce_interval or more and the next task is announced at once
EmptyTimeoutResets ==
  [][(mainPc = "poll" /\ mainPc' = "head" /\ req' = req /\ task_queue = <<>>)
       => since_announcement' >= announce_interval]_vars


\* the thread that called propagate is inside its loop
InPropagateLoop == subPc \in {"test", "acquire", "locked", "wait", "drain"}

\* worker w took tasks and hangs without returning their results
Dropped(w) == wPc[w] = "hung" /\ wTasks[w] # <<>>

\* C27: when a worker takes tasks and never returns their results, no
\* envelope of these is queued again or sent to another worker, propagate
\* does not return while the main loop runs, and once the main loop has
\* given up for lack of clients the caller of propagate stops hanging
DroppedNotRetried ==
  /\ [](\A w \in Workers : Dropped(w) =>
          /\ \A k \in 1..Len(wTasks[w]) :
               /\ wTasks[w][k] \notin Range(task_queue)
               /\ \A v \in Workers \ {w} : wTasks[w][k] \notin Range(wTasks[v])
               /\ \A c \in Clients :
                    rep[c].kind = "tasks" => wTasks[w][k] \notin Range(rep[c].tasks)
          /\ mainPc # "exited" => subPc \notin {"reset", "done"})
  /\ ((\E w \in Workers : Dropped(w)) /\ Fatal /\ InPropagateLoop) ~> ~InPropagateLoop

\* the status of segment s in the archive of the run
ArchivedStatus(s) == h5file.groups[1].seg_index[s + 1].status

\* the segments of the envelopes on which the propagator raised
Affected(envelope) == Range(envelope.args) \cap faulty

\* C28: an envelope on whose segments the propagator raises comes back
\* completed, with the exception and without a result; when propagate takes it
\* from results_queue it ends with an exception at once, copying nothing and
\* writing nothing, and never returns normally; the segments on which the
\* propagator raised keep the status they had, in memory and in the archive
TaskExceptionSurfaces ==
  /\ [](\A k \in 1..Len(results_queue) :
          Affected(results_queue[k]) # {} =>
            /\ results_queue[k].completed
            /\ results_queue[k].exception # "none"
            /\ results_queue[k].result = <<>>)
  /\ [][(/\ subPc = "drain"
         /\ results_queue # <<>>
         /\ results_queue' = Tail(results_queue)
         /\ Affected(Head(results_queue)) # {})
        => (/\ subPc' \notin {"drain", "test", "acquire", "locked", "wait", "reset", "done"}
            /\ outgoing' = outgoing
            /\ h5file' = h5file)]_vars
  /\ [](\A s \in faulty : outgoing[s] = 1 /\ ArchivedStatus(s) = 1)
  /\ [](faulty # {} => subPc \notin {"reset", "done"})

\* propagate has ended with the exception and the segment still has its status
FailureSurfaced ==
  /\ subPc = "TypeError"
  /\ \E s \in faulty : outgoing[s] = 1 /\ ArchivedStatus(s) = 1

\* the segments of S are in the archive as the propagator returned them
Committed(s) ==
  /\ ArchivedStatus(s) = Incoming(s).status
  /\ h5file.groups[1].seg_index[s + 1].cputime = Incoming(s).cputime
  /\ h5file.groups[1].pcoord[s + 1] = Incoming(s).pcoord[1]

ExitCodeCarried ==
  (caller.pc # "idle" /\ raised = "none") =>
    \A i \in 1..Len(shutdown_ann) : shutdown_ann[i] = caller.exit_code

\* C33: the main loop always leaves handle_results: having appended the
\* results it takes the lock of results_avail, notifies and goes back to its
\* loop condition, also when propagate has drained the last results and
\* returned
HandleResultsReturns == (mainPc = "append") ~> (mainPc # "append")

\* the seg_ids of the segments of a list
SegIds(segments) == {segments[k].seg_id : k \in 1..Len(segments)}

\* C35: update_segments(n, segments) leaves every row of seg_index and of
\* pcoord of iteration n whose seg_id is not among the segments as it was,
\* and every other iteration group as it was
UpdateFrame ==
  [][(call'.op = "update_segments" /\ h5file.open) =>
       /\ DOMAIN h5file'.groups = DOMAIN h5file.groups
       /\ \A n \in DOMAIN h5file.groups :
            n # call'.n_iter => h5file'.groups[n] = h5file.groups[n]
       /\ HasGroup(h5file, call'.n_iter) =>
            LET before == h5file.groups[call'.n_iter]
                after == h5file'.groups[call'.n_iter]
            IN /\ Len(after.seg_index) = Len(before.seg_index)
               /\ Len(after.pcoord) = Len(before.pcoord)
               /\ \A i \in 1..Len(before.seg_index) :
                    (i - 1) \notin SegIds(call'.segments) =>
                      /\ after.seg_index[i] = before.seg_index[i]
                      /\ after.pcoord[i] = before.pcoord[i]]_vars

\* an accepted update of the first segment of iteration 1, which has a
\* second segment still as prepared, with iteration 2 in the archive
OneRowUpdated ==
  /\ call.op = "update_segments"
  /\ call.exc = "none"
  /\ call.n_iter = 1
  /\ SegIds(call.segments) = {0}
  /\ HasGroup(h5file, 2)
  /\ Len(h5file.groups[1].seg_index) = 2
  /\ h5file.groups[1].seg_index[1].status = 2
  /\ h5file.groups[1].seg_index[2].status = 1
  /\ h5file.groups[1].pcoord[1] # h5file.groups[1].pcoord[2]

\* the number of places that hold the envelope with task_id b: task_queue,
\* a reply in flight, a worker, a results message in flight, the payload
\* handle_results is appending, results_queue, and propagate's record of
\* what it has taken from results_queue
Places(b) ==
  CountId(task_queue, b)
  + SumSeq([c \in 1..(NWorkers + 1) |->
              IF rep[c].kind = "tasks" THEN CountId(rep[c].tasks, b) ELSE 0])
  + SumSeq([w \in 1..NWorkers |-> CountId(wTasks[w], b)])
  + SumSeq([c \in 1..(NWorkers + 1) |->
              IF req[c].kind = "results" THEN CountId(req[c].results, b) ELSE 0])
  + CountId(payload, b)
  + CountId(results_queue, b)
  + (IF Range(Block(b)) \subseteq completed_ids THEN 1 ELSE 0)

\* C32: every envelope queued by dispatch or dispatch_all is in exactly one
\* place: task_queue, one worker (a reply to it, its task threads or its
\* results message), the main loop's handle_results, results_queue, or
\* consumed by propagate; an envelope not yet queued is nowhere
ExactlyOnePlace ==
  \A b \in 1..NBlocks : Places(b) = (IF b < next_task THEN 1 ELSE 0)

\* two workers hold one envelope each at the same time
TwoWorkersServed ==
  /\ wTasks[1] # <<>>
  /\ wTasks[2] # <<>>
  /\ wTasks[1][1].task_id # wTasks[2][1].task_id

\* C31: once a shutdown announcement is published nothing more is sent:
\* no envelope leaves task_queue, no reply is sent on the task socket, no
\* announcement (taskavail or shutdown) is published, and the main loop does
\* not go back to its loop
QuietAfterShutdown ==
  [][shutdown_ann # <<>> =>
       /\ Len(task_queue') >= Len(task_queue)
       /\ SubSeq(task_queue', 1, Len(task_queue)) = task_queue
       /\ \A c \in Clients : rep'[c] \in {rep[c], NoMsg}
       /\ \A w \in Workers : Len(annq'[w]) <= Len(annq[w])
       /\ shutdown_ann' = shutdown_ann
       /\ mainPc' \notin {"start", "head", "poll", "append"}]_vars

====
